---- MODULE Spec2Model ----
(***************************************************************************)
(* Model of package authz (authorizer.go): an Authorizer owns a map from   *)
(* action strings to Effectors; AddPolicy inserts, Enforce dispatches.     *)
(* Go maps are reference values, so the map objects live in a store        *)
(* (maps) and an Authorizer holds a reference into it.                     *)
(***************************************************************************)
EXTENDS Integers, Sequences, FiniteSets, TLC

VARIABLES auths, maps, last, before, succeeded, calls, sealed, crashed

vars == <<auths, maps, last, before, succeeded, calls, sealed, crashed>>

\* ---------------------------------------------------------------- bounds
MaxAuthorizers == 2
MaxCalls == 2

\* ------------------------------------------------------- values and types
\* Action strings handed to AddPolicy / Enforce; "" is the empty identifier.
Actions == {"", "delete"}

\* type User of the tests; Roles is a slice, modelled by its set of elements
ZeroUser == [UserID |-> "", IsAdmin |-> FALSE, Roles |-> {}]

Users ==
  { [UserID |-> "user1", IsAdmin |-> FALSE, Roles |-> {}],
    [UserID |-> "user2", IsAdmin |-> TRUE, Roles |-> {}] }

\* the nil func value: the zero value of type Effector
Nil == "nil"

\* "delete" policy of initializeUserUserAuthorizer
DeleteUser(user1, user2) ==
  IF user2.IsAdmin THEN FALSE
  ELSE IF user1.IsAdmin THEN TRUE
  ELSE FALSE

\* "update:profile" policy of initializeUserUserAuthorizer
UpdateProfile(user1, user2) ==
  IF user1.IsAdmin THEN TRUE
  ELSE IF user1.UserID = user2.UserID THEN TRUE
  ELSE IF "ProfileModerator" \in user1.Roles THEN TRUE
  ELSE FALSE

\* Effector values a caller can pass: the two policies above, or nil
Effectors == {Nil, "deleteUser", "updateProfile"}

\* what a non-nil Effector computes for (T, T2)
Apply(fn, x, y) ==
  CASE fn = "deleteUser" -> DeleteUser(x, y)
    [] fn = "updateProfile" -> UpdateProfile(x, y)

\* ------------------------------------------------------- call outcomes
Returned(v) == [status |-> "returned", value |-> v, msg |-> ""]

Void == [status |-> "returned", value |-> FALSE, msg |-> "void"]

Panicked(m) == [status |-> "panicked", value |-> FALSE, msg |-> m]

NilDeref == "invalid memory address or nil pointer dereference"

\* fn(subject, resource): calling a nil func value panics at run time
Call(fn, x, y) ==
  IF fn = Nil THEN Panicked(NilDeref) ELSE Returned(Apply(fn, x, y))

\* ------------------------------------------------------------ Go map
EmptyMap == [k \in {} |-> Nil]

\* _, ok := m[k]
MapHas(m, k) == k \in DOMAIN m

\* m[k]: a missing key yields the zero value
MapGet(m, k) == IF k \in DOMAIN m THEN m[k] ELSE Nil

\* m[k] = v
MapSet(m, k, v) == [x \in (DOMAIN m) \cup {k} |-> IF x = k THEN v ELSE m[x]]

\* a.Policies of authorizer a
Policies(a) == maps[auths[a].Policies]

NoCall ==
  [op |-> "none", auth |-> 0, action |-> "", subject |-> ZeroUser,
   resource |-> ZeroUser, effect |-> Nil, outcome |-> Void, again |-> FALSE,
   prior |-> Void]

\* history: the registries, maps and successful registrations as they are now,
\* kept as the state a call started from
Snapshot == [auths |-> auths, maps |-> maps, succeeded |-> succeeded]

\* a.Policies of authorizer a as it was in snapshot st
PoliciesIn(st, a) == st.maps[st.auths[a].Policies]

\* ------------------------------------------------------------ NewAuthorizer
\* variant: every Authorizer is handed the same map
NewAuthorizerRefShared(store) == 1

\* map[string]Effector[T, T2]{} allocates a fresh map
NewAuthorizerRef(store) == Len(store) + 1

NewAuthorizer ==
  /\ Len(auths) < MaxAuthorizers
  /\ maps' = Append(maps, EmptyMap)
  /\ auths' = Append(auths, [Policies |-> NewAuthorizerRef(maps)])
  /\ last' = [NoCall EXCEPT !.op = "NewAuthorizer", !.auth = Len(auths) + 1]
  /\ before' = Snapshot
  /\ UNCHANGED <<succeeded, calls, sealed, crashed>>

\* ------------------------------------------------------------ AddPolicy
\* variant: a duplicate registration is silently ignored
AddPolicyOutcomeIgnoreDup(m, action, effect) == Void

\* the outcome of AddPolicy(action, effect) on a map m
AddPolicyOutcome(m, action, effect) ==
  IF MapHas(m, action)
  THEN Panicked("a policy already exists for action " \o action)
  ELSE Void

\* variant: no existence check, the second registration overwrites the first
AddPolicyMapOverwrite(m, action, effect) == MapSet(m, action, effect)

\* variant: the empty action identifier is rejected without an insertion
AddPolicyMapSkipEmpty(m, action, effect) ==
  IF MapHas(m, action) \/ action = "" THEN m ELSE MapSet(m, action, effect)

\* the map after AddPolicy(action, effect)
AddPolicyMap(m, action, effect) ==
  IF MapHas(m, action) THEN m ELSE MapSet(m, action, effect)

AddPolicy(a, action, effect) ==
  /\ a \in 1..Len(auths)
  /\ LET m == Policies(a)
         out == AddPolicyOutcome(m, action, effect)
     IN /\ maps' = [maps EXCEPT ![auths[a].Policies] = AddPolicyMap(m, action, effect)]
        /\ last' = [NoCall EXCEPT !.op = "AddPolicy", !.auth = a, !.action = action,
                                  !.effect = effect, !.outcome = out]
        /\ succeeded' = IF out.status = "returned"
                        THEN succeeded \cup {<<a, action, effect>>}
                        ELSE succeeded
  /\ before' = Snapshot
  /\ UNCHANGED <<auths, calls, sealed, crashed>>

\* ------------------------------------------------------------ Enforce
\* variant: a missing policy is treated as "denied"
EnforceOutcomeDefaultDeny(m, subject, action, resource) ==
  IF ~MapHas(m, action)
  THEN Returned(FALSE)
  ELSE Call(MapGet(m, action), subject, resource)

\* variant: the Effector is called with its arguments swapped
EnforceOutcomeSwapped(m, subject, action, resource) ==
  IF ~MapHas(m, action)
  THEN Panicked("no policies for action " \o action)
  ELSE Call(MapGet(m, action), resource, subject)

\* the outcome of Enforce(subject, action, resource) on a map m
EnforceOutcome(m, subject, action, resource) ==
  IF ~MapHas(m, action)
  THEN Panicked("no policies for action " \o action)
  ELSE Call(MapGet(m, action), subject, resource)

\* history: the call before this one was Enforce with the same arguments
SameEnforce(c, a, subject, action, resource) ==
  /\ c.op = "Enforce"
  /\ c.auth = a
  /\ c.subject = subject
  /\ c.action = action
  /\ c.resource = resource

\* variant: a one-shot policy, removed from the map once it has been enforced
EnforceConsuming(a, subject, action, resource) ==
  /\ a \in 1..Len(auths)
  /\ last' = [NoCall EXCEPT !.op = "Enforce", !.auth = a, !.action = action,
                            !.subject = subject, !.resource = resource,
                            !.outcome = EnforceOutcome(Policies(a), subject, action, resource),
                            !.again = SameEnforce(last, a, subject, action, resource),
                            !.prior = IF SameEnforce(last, a, subject, action, resource)
                                      THEN last.outcome ELSE Void]
  /\ before' = Snapshot
  /\ maps' = [maps EXCEPT ![auths[a].Policies] =
                 [k \in (DOMAIN Policies(a)) \ {action} |-> Policies(a)[k]]]
  /\ UNCHANGED <<auths, succeeded, calls, sealed, crashed>>

Enforce(a, subject, action, resource) ==
  /\ a \in 1..Len(auths)
  /\ last' = [NoCall EXCEPT !.op = "Enforce", !.auth = a, !.action = action,
                            !.subject = subject, !.resource = resource,
                            !.outcome = EnforceOutcome(Policies(a), subject, action, resource),
                            !.again = SameEnforce(last, a, subject, action, resource),
                            !.prior = IF SameEnforce(last, a, subject, action, resource)
                                      THEN last.outcome ELSE Void]
  /\ before' = Snapshot
  /\ UNCHANGED <<auths, maps, succeeded, calls, sealed, crashed>>


\* ------------------------------------------------ calls running concurrently
\* Each slot is one goroutine's call, advanced one statement at a time.
Slots == 1..MaxCalls

\* a call's frame: its arguments, its locals (ok, fn) and its position;
\* began is history: the calls that were in progress when this one started
IdleCall ==
  [pc |-> "idle", op |-> "none", auth |-> 0, action |-> "", subject |-> ZeroUser,
   resource |-> ZeroUser, effect |-> Nil, ok |-> FALSE, fn |-> Nil,
   outcome |-> Void, began |-> {}]

InProgress(c) == calls[c].pc \in {"check", "write", "lookup", "invoke"}

Running == {c \in Slots : InProgress(c)}

\* call of AddPolicy(action, effect) on authorizer a
AddPolicyBegin(c, a, action, effect) ==
  /\ ~crashed
  /\ ~sealed
  /\ calls[c].pc = "idle"
  /\ a \in 1..Len(auths)
  /\ calls' = [calls EXCEPT ![c] =
                 [IdleCall EXCEPT !.pc = "check", !.op = "AddPolicy", !.auth = a,
                                  !.action = action, !.effect = effect,
                                  !.began = Running]]
  /\ UNCHANGED <<auths, maps, last, before, succeeded, sealed, crashed>>

\* variant: the existence check is missing, every call goes on to the write
AddPolicyCheckSkipped(c) ==
  /\ ~crashed
  /\ calls[c].pc = "check"
  /\ calls[c].op = "AddPolicy"
  /\ calls' = [calls EXCEPT ![c].pc = "write"]
  /\ UNCHANGED <<auths, maps, last, before, succeeded, sealed, crashed>>

\* if _, ok := a.Policies[action]; ok { panic(...) }
AddPolicyCheck(c) ==
  /\ ~crashed
  /\ calls[c].pc = "check"
  /\ calls[c].op = "AddPolicy"
  /\ LET ok == MapHas(Policies(calls[c].auth), calls[c].action)
     IN calls' = [calls EXCEPT
          ![c].ok = ok,
          ![c].pc = IF ok THEN "done" ELSE "write",
          ![c].outcome = IF ok
             THEN Panicked("a policy already exists for action " \o calls[c].action)
             ELSE Void]
  /\ UNCHANGED <<auths, maps, last, before, succeeded, sealed, crashed>>

\* a.Policies[action] = effect, then return
AddPolicyWrite(c) ==
  /\ ~crashed
  /\ calls[c].pc = "write"
  /\ maps' = [maps EXCEPT ![auths[calls[c].auth].Policies] =
                 MapSet(Policies(calls[c].auth), calls[c].action, calls[c].effect)]
  /\ calls' = [calls EXCEPT ![c].pc = "done", ![c].outcome = Void]
  /\ UNCHANGED <<auths, last, before, succeeded, sealed, crashed>>

\* The map write of one call unordered with a map access of another call on
\* the same map is a data race; besides going through (AddPolicyWrite), the
\* runtime may detect it and stop the process ("fatal error: concurrent map
\* writes" / "concurrent map read and map write").
AddPolicyRace(c) ==
  /\ ~crashed
  /\ calls[c].pc = "write"
  /\ \E d \in Slots \ {c} :
       /\ calls[d].pc \in {"check", "write"}
       /\ auths[calls[d].auth].Policies = auths[calls[c].auth].Policies
  /\ crashed' = TRUE
  /\ UNCHANGED <<auths, maps, last, before, succeeded, calls, sealed>>

\* call of Enforce(subject, action, resource) on authorizer a
EnforceBegin(c, a, subject, action, resource) ==
  /\ ~crashed
  /\ sealed
  /\ calls[c].pc = "idle"
  /\ a \in 1..Len(auths)
  /\ calls' = [calls EXCEPT ![c] =
                 [IdleCall EXCEPT !.pc = "check", !.op = "Enforce", !.auth = a,
                                  !.action = action, !.subject = subject,
                                  !.resource = resource]]
  /\ UNCHANGED <<auths, maps, last, before, succeeded, sealed, crashed>>

\* if _, ok := a.Policies[action]; !ok { panic(...) }
EnforceCheck(c) ==
  /\ ~crashed
  /\ calls[c].pc = "check"
  /\ calls[c].op = "Enforce"
  /\ LET ok == MapHas(Policies(calls[c].auth), calls[c].action)
     IN calls' = [calls EXCEPT
          ![c].ok = ok,
          ![c].pc = IF ok THEN "lookup" ELSE "done",
          ![c].outcome = IF ok THEN Void
             ELSE Panicked("no policies for action " \o calls[c].action)]
  /\ UNCHANGED <<auths, maps, last, before, succeeded, sealed, crashed>>

\* variant: the lookup takes the Effector out of the map
EnforceLookupTaking(c) ==
  /\ ~crashed
  /\ calls[c].pc = "lookup"
  /\ calls' = [calls EXCEPT
       ![c].fn = MapGet(Policies(calls[c].auth), calls[c].action),
       ![c].pc = "invoke"]
  /\ maps' = [maps EXCEPT ![auths[calls[c].auth].Policies] =
                 [k \in (DOMAIN Policies(calls[c].auth)) \ {calls[c].action} |->
                    Policies(calls[c].auth)[k]]]
  /\ UNCHANGED <<auths, last, before, succeeded, sealed, crashed>>

\* fn := a.Policies[action]
EnforceLookup(c) ==
  /\ ~crashed
  /\ calls[c].pc = "lookup"
  /\ calls' = [calls EXCEPT
       ![c].fn = MapGet(Policies(calls[c].auth), calls[c].action),
       ![c].pc = "invoke"]
  /\ UNCHANGED <<auths, maps, last, before, succeeded, sealed, crashed>>

\* return fn(subject, resource)
EnforceInvoke(c) ==
  /\ ~crashed
  /\ calls[c].pc = "invoke"
  /\ calls' = [calls EXCEPT
       ![c].outcome = Call(calls[c].fn, calls[c].subject, calls[c].resource),
       ![c].pc = "done"]
  /\ UNCHANGED <<auths, maps, last, before, succeeded, sealed, crashed>>

\* the caller has its result; the goroutine is free for another call
EnforceReturn(c) ==
  /\ ~crashed
  /\ calls[c].pc = "done"
  /\ calls[c].op = "Enforce"
  /\ calls' = [calls EXCEPT ![c] = IdleCall]
  /\ UNCHANGED <<auths, maps, last, before, succeeded, sealed, crashed>>

\* the caller ends the population phase: no AddPolicy call from here on
Seal ==
  /\ ~sealed
  /\ Len(auths) > 0
  /\ sealed' = TRUE
  /\ last' = [NoCall EXCEPT !.op = "Seal"]
  /\ before' = Snapshot
  /\ UNCHANGED <<auths, maps, succeeded, calls, crashed>>

\* ------------------------------------------------------------ specification
NoCalls == [c \in Slots |-> IdleCall]

Init ==
  /\ auths = <<>>
  /\ maps = <<>>
  /\ last = NoCall
  /\ before = [auths |-> <<>>, maps |-> <<>>, succeeded |-> {}]
  /\ succeeded = {}
  /\ calls = NoCalls
  /\ sealed = FALSE
  /\ crashed = FALSE

Next ==
  \/ NewAuthorizer
  \/ \E a \in 1..MaxAuthorizers, action \in Actions, effect \in Effectors :
       AddPolicy(a, action, effect)
  \/ \E a \in 1..MaxAuthorizers, subject \in Users, action \in Actions, resource \in Users :
       Enforce(a, subject, action, resource)

Spec == Init /\ [][Next]_vars

\* one registry has been constructed, nothing is registered
InitOne ==
  /\ auths = <<[Policies |-> NewAuthorizerRef(<<>>)]>>
  /\ maps = <<EmptyMap>>
  /\ last = [NoCall EXCEPT !.op = "NewAuthorizer", !.auth = 1]
  /\ before = [auths |-> <<>>, maps |-> <<>>, succeeded |-> {}]
  /\ succeeded = {}
  /\ calls = NoCalls
  /\ sealed = FALSE
  /\ crashed = FALSE

\* population by one caller, then Enforce calls from concurrent goroutines
NextEnforce ==
  \/ \E a \in 1..Len(auths), action \in Actions, effect \in Effectors :
       ~sealed /\ AddPolicy(a, action, effect)
  \/ Seal
  \/ \E c \in Slots, a \in 1..Len(auths), subject \in Users,
        action \in Actions, resource \in Users :
       EnforceBegin(c, a, subject, action, resource)
  \/ \E c \in Slots : EnforceCheck(c)
  \/ \E c \in Slots : EnforceLookup(c)
  \/ \E c \in Slots : EnforceInvoke(c)
  \/ \E c \in Slots : EnforceReturn(c)

SpecEnforce == InitOne /\ [][NextEnforce]_vars

\* AddPolicy calls from concurrent goroutines, without synchronisation
NextAddPolicy ==
  \/ \E c \in Slots, a \in 1..Len(auths), action \in Actions,
        effect \in Effectors :
       AddPolicyBegin(c, a, action, effect)
  \/ \E c \in Slots : AddPolicyCheck(c)
  \/ \E c \in Slots : AddPolicyWrite(c)
  \/ \E c \in Slots : AddPolicyRace(c)

SpecAddPolicy == InitOne /\ [][NextAddPolicy]_vars

\* ------------------------------------------------------------ properties
\* some AddPolicy call has succeeded for action on authorizer a
Registered(a, action) == \E e \in Effectors : <<a, action, e>> \in succeeded

\* C1: Enforce for an action that no AddPolicy call has succeeded for on that
\* registry panics with "no policies for action ..." whatever the subject and
\* target are; it never returns a boolean.
EnforceMissingPanics ==
  (last.op = "Enforce" /\ ~Registered(last.auth, last.action))
    => last.outcome = Panicked("no policies for action " \o last.action)

EnforceMissingOnFreshRegistry ==
  /\ last.op = "Enforce"
  /\ Policies(last.auth) = EmptyMap
  /\ succeeded = {}
  /\ last.outcome.status = "panicked"

\* C2: an AddPolicy call for an action that an earlier AddPolicy call on the
\* same registry succeeded for panics, whether its Effector is the same or
\* another one, and leaves every map as it was: the first Effector stays.
DuplicateAddPolicyPanics ==
  \A e \in Effectors :
    (last.op = "AddPolicy" /\ <<last.auth, last.action, e>> \in before.succeeded)
      => /\ last.outcome =
              Panicked("a policy already exists for action " \o last.action)
         /\ maps = before.maps
         /\ auths = before.auths
         /\ MapHas(Policies(last.auth), last.action)
         /\ MapGet(Policies(last.auth), last.action) = e

DuplicateWithOtherEffector ==
  /\ last.op = "AddPolicy"
  /\ last.outcome.status = "panicked"
  /\ MapHas(Policies(last.auth), last.action)
  /\ MapGet(Policies(last.auth), last.action) # last.effect

\* C3: Enforce(s, Ai, t) on a registry where AddPolicy succeeded for Ai with
\* predicate Pi returns exactly Pi(s, t): the predicate registered under that
\* identifier, called with (subject, target), its result unchanged.
EnforceReturnsRegisteredPredicate ==
  \A r \in succeeded :
    (last.op = "Enforce" /\ last.auth = r[1] /\ last.action = r[2] /\ r[3] # Nil)
      => last.outcome = Returned(Apply(r[3], last.subject, last.resource))

EnforceAmongTwoPolicies ==
  /\ last.op = "Enforce"
  /\ DOMAIN Policies(last.auth) = Actions
  /\ \A k \in Actions : Policies(last.auth)[k] # Nil
  /\ Policies(last.auth)[""] # Policies(last.auth)["delete"]
  /\ last.outcome = Returned(TRUE)
  /\ Apply(Policies(last.auth)[last.action], last.resource, last.subject) = FALSE

\* C4: across every AddPolicy and Enforce call, successful or failing, an
\* action that is in a registry's map stays in it with the same Effector, and
\* the registry keeps its map: registrations only grow.
AssociationsNeverChange ==
  /\ Len(auths) >= Len(before.auths)
  /\ \A a \in 1..Len(before.auths) :
       /\ auths[a] = before.auths[a]
       /\ \A k \in DOMAIN PoliciesIn(before, a) :
            /\ MapHas(Policies(a), k)
            /\ MapGet(Policies(a), k) = MapGet(PoliciesIn(before, a), k)
  /\ \A r \in succeeded :
       /\ MapHas(Policies(r[1]), r[2])
       /\ MapGet(Policies(r[1]), r[2]) = r[3]

GrownRegistryAfterEnforce ==
  /\ last.op = "Enforce"
  /\ last.outcome.status = "returned"
  /\ DOMAIN Policies(last.auth) = Actions
  /\ Cardinality(succeeded) >= 3

\* C5: registries made by separate NewAuthorizer calls are independent: an
\* AddPolicy call on one leaves every other registry's map unchanged and
\* succeeds whenever the action is absent from its own map, and Enforce on a
\* registry panics for an action absent from its own map even if another
\* registry has it.
RegistriesIndependent ==
  /\ (last.op = "AddPolicy") =>
       /\ \A b \in 1..Len(auths) :
            b # last.auth => Policies(b) = PoliciesIn(before, b)
       /\ ~MapHas(PoliciesIn(before, last.auth), last.action) =>
            /\ last.outcome = Void
            /\ MapGet(Policies(last.auth), last.action) = last.effect
  /\ (last.op = "Enforce" /\ ~Registered(last.auth, last.action))
       => last.outcome.status = "panicked"

EnforceFailsOnOtherRegistry ==
  /\ Len(auths) >= 2
  /\ last.op = "Enforce"
  /\ last.outcome.status = "panicked"
  /\ \E b \in 1..Len(auths) :
       /\ b # last.auth
       /\ MapHas(Policies(b), last.action)
       /\ Policies(b)[last.action] # Nil

\* C6: an Enforce call changes the outcome of no later Enforce call, with the
\* same or other arguments, and an Enforce call that repeats the preceding
\* one (no AddPolicy in between) has the same outcome, boolean or panic.
EnforceDeterministic ==
  (last.op = "Enforce") =>
    /\ maps = before.maps
    /\ auths = before.auths
    /\ \A a \in 1..Len(auths), s \in Users, k \in Actions, t \in Users :
         EnforceOutcome(Policies(a), s, k, t) = EnforceOutcome(PoliciesIn(before, a), s, k, t)
    /\ last.again => last.outcome = last.prior

EnforceRepeated ==
  /\ last.op = "Enforce"
  /\ last.again
  /\ last.outcome = Returned(TRUE)

\* C9 (as claimed): AddPolicy panics only for an action already registered,
\* and Enforce for a registered action always returns a boolean, whatever
\* Effector value was registered, nil included.
OnlyTwoFatalConditions ==
  /\ (last.op = "AddPolicy" /\ last.outcome.status = "panicked")
       => Registered(last.auth, last.action)
  /\ (last.op = "Enforce" /\ Registered(last.auth, last.action))
       => last.outcome.status = "returned"

\* C10 (as claimed): every key of every registry's map is a non-empty string.
KeysNonEmpty == \A a \in 1..Len(auths) : "" \notin DOMAIN Policies(a)

\* C10 (amended): AddPolicy takes any identifier, the empty one included:
\* every key of a registry's map is an identifier that a successful AddPolicy
\* call on that registry was given, and a successful AddPolicy call, also for
\* "", leaves its identifier in the map with its Effector.
KeysAreRegisteredIdentifiers ==
  /\ \A a \in 1..Len(auths) : \A k \in DOMAIN Policies(a) : Registered(a, k)
  /\ (last.op = "AddPolicy" /\ last.outcome.status = "returned")
       => /\ MapHas(Policies(last.auth), last.action)
          /\ MapGet(Policies(last.auth), last.action) = last.effect

EmptyIdentifierRegistered ==
  /\ last.op = "AddPolicy"
  /\ last.action = ""
  /\ last.outcome = Void
  /\ MapHas(Policies(last.auth), "")

\* C7: once population is complete, under every interleaving of the steps of
\* concurrent Enforce calls no map changes and each call that has finished
\* has the outcome the whole Enforce would give on the registry's map.
ConcurrentEnforceSafe ==
  sealed =>
    /\ maps = before.maps
    /\ auths = before.auths
    /\ \A c \in Slots :
         (calls[c].pc = "done" /\ calls[c].op = "Enforce") =>
           calls[c].outcome =
             EnforceOutcome(PoliciesIn(before, calls[c].auth), calls[c].subject,
                            calls[c].action, calls[c].resource)

EnforceCallsInterleaved ==
  /\ sealed
  /\ \E c, d \in Slots :
       /\ c # d
       /\ calls[c].pc = "done"
       /\ calls[c].outcome = Returned(TRUE)
       /\ calls[d].pc = "invoke"
       /\ calls[d].action = calls[c].action
       /\ calls[d].subject # calls[c].subject

\* the AddPolicy calls that have returned without a panic
Succeeded(k) ==
  {c \in Slots : /\ calls[c].op = "AddPolicy"
                 /\ calls[c].pc = "done"
                 /\ calls[c].action = k
                 /\ calls[c].outcome = Void}

\* the AddPolicy calls that have panicked on the existence check
Failed(k) ==
  {c \in Slots : /\ calls[c].op = "AddPolicy"
                 /\ calls[c].pc = "done"
                 /\ calls[c].action = k
                 /\ calls[c].outcome.status = "panicked"}

\* an action is absent or holds the Effector of the one call that succeeded
\* for it, and of two finished calls for one action one succeeded, one panicked
InsertionAtomic ==
  /\ \A a \in 1..Len(auths) : \A k \in DOMAIN Policies(a) :
       /\ Cardinality(Succeeded(k)) = 1
       /\ \A c \in Succeeded(k) : calls[c].effect = Policies(a)[k]
  /\ \A k \in Actions :
       Cardinality(Succeeded(k) \cup Failed(k)) >= 2 =>
         /\ Cardinality(Succeeded(k)) = 1
         /\ Cardinality(Failed(k)) >= 1

\* C8 (as claimed): AddPolicy is an atomic insertion also when the existence
\* check and the map write of two calls interleave.
AddPolicyAtomicAlways == InsertionAtomic

\* C8 (amended): when no two AddPolicy calls on the registry overlap in time,
\* an action is absent or holds the Effector of the one call that succeeded
\* for it, and of two calls for one action one succeeds and the other panics.
AddPolicyAtomicWhenSerial ==
  (\A c \in Slots : calls[c].began = {}) => InsertionAtomic

SerialDuplicateCalls ==
  /\ \A c \in Slots : calls[c].began = {}
  /\ \E c, d \in Slots :
       /\ c # d
       /\ calls[c].pc = "done"
       /\ calls[d].pc = "done"
       /\ calls[c].action = calls[d].action
       /\ calls[c].effect # calls[d].effect
       /\ calls[c].outcome = Void
       /\ calls[d].outcome.status = "panicked"

TypeOK ==
  /\ Len(auths) = Len(maps)
  /\ \A a \in 1..Len(auths) : DOMAIN Policies(a) \subseteq Actions
====
